---- MODULE Spec2Model ----
(***************************************************************************)
(* A model of idf_build_apps/app.py: the App entity, its three-valued      *)
(* build decision (check_should_build) and the supervised build lifecycle  *)
(* (build, _build of the Make and CMake variants, write_size_json).        *)
(***************************************************************************)
EXTENDS Integers, Sequences, FiniteSets, TLC

VARIABLES
    app,                   \* the App's fields that never change after construction
    should_build,          \* App.should_build
    checked_should_build,  \* App._checked_should_build
    args,                  \* the arguments of the call in progress (or of the last call)
    before,                \* should_build on entry to the last check_should_build / build call
    pc,                    \* position of the caller: which method ran last, or the step of build()
    fs,                    \* the files and directories that exist
    log,                   \* the lines written to the log file of this build()
    keep_logfile,          \* build(): keep_logfile
    build_with_error,      \* build(): build_with_error, the BuildError caught from _build, or "None"
    is_built,              \* build(): is_built
    lines,                 \* build(): lines, the stripped non-blank lines of the log
    has_unignored_warning, \* build(): has_unignored_warning
    build_components,      \* CMakeApp._build: build_components, as read after reconfigure
    ops,                   \* what this build() has done so far, in order
    raised,                \* the error build() raised to its caller, or "None"
    returned,              \* the value build() returned: "True", "False", or "None" when it has not
    path,                  \* _expand(): the raw path it is called with
    expanded,              \* _expand(): whether it has returned, and what
    disk,                  \* the sdkconfig files on disk, by path
    scratch,               \* the files of expanded_sdkconfig_files/<build dir>, by name
    dirs,                  \* which of the scratch directories exist
    candidate,             \* _process_sdkconfig_files(): position of its loop over the files
    res,                   \* _process_sdkconfig_files(): res
    sdkconfig_files,       \* App._sdkconfig_files
    sdkconfig_files_defined_target, \* App._sdkconfig_files_defined_target
    cmake_vars             \* CMakeApp.cmake_vars

appState == <<app, should_build, checked_should_build>>
callState == <<args, before>>
buildLocals == <<keep_logfile, build_with_error, is_built, lines, has_unignored_warning,
                 build_components>>
buildState == <<fs, log, buildLocals, ops, raised, returned>>
expandState == <<path, expanded>>
sdkconfigState == <<disk, scratch, dirs, candidate, res, sdkconfig_files,
                    sdkconfig_files_defined_target, cmake_vars>>
ctorState == <<expandState, sdkconfigState>>
vars == <<appState, callState, pc, buildState, ctorState>>

----------------------------------------------------------------------------
(* BuildOrNot *)

YES == "yes"
NO == "no"
UNKNOWN == "unknown"
BuildOrNot == {YES, NO, UNKNOWN}

----------------------------------------------------------------------------
(* Bounds of the model *)

\* modified_files lists hold at most this many files
MaxModifiedFiles == 2
\* modified_components lists hold at most this many components
MaxModifiedComponents == 2
MaxPathPieces == 5
MaxSdkconfigLines == 2

----------------------------------------------------------------------------
(* Paths.  A file name is a tuple of characters, a path a record of the    *)
(* flag "absolute" and the tuple of its names.                             *)

DotMd == <<".", "m", "d">>
DotDot == <<".", ".">>
Star == <<"*">>

Abs(parts) == [abs |-> TRUE, parts |-> parts]
Rel(parts) == [abs |-> FALSE, parts |-> parts]

\* the process's working directory: /w
Cwd == << <<"w">> >>

\* str.endswith
EndsWith(name, suffix) ==
    /\ Len(name) >= Len(suffix)
    /\ SubSeq(name, Len(name) - Len(suffix) + 1, Len(name)) = suffix

\* Path.resolve(): ".." steps back one name
RECURSIVE Resolve(_, _)
Resolve(done, rest) ==
    IF rest = <<>> THEN done
    ELSE IF Head(rest) = DotDot
         THEN Resolve(IF done = <<>> THEN done ELSE SubSeq(done, 1, Len(done) - 1), Tail(rest))
         ELSE Resolve(Append(done, Head(rest)), Tail(rest))

\* utils.to_absolute_path(s, rootpath): relative paths are taken from rootpath
to_absolute_path(p, rootpath) ==
    Resolve(<<>>, IF p.abs THEN p.parts ELSE rootpath \o p.parts)

\* a in PurePath(f).parents: a is a proper prefix of f
InParents(a, f) ==
    /\ Len(a) < Len(f)
    /\ SubSeq(f, 1, Len(a)) = a

\* utils.files_matches_patterns: some file matches some pattern, name by name
\* ("*" stands for any one name), both taken from the manifest root
PathMatch(f, pat) ==
    /\ Len(f) = Len(pat)
    /\ \A i \in 1..Len(f) : pat[i] = Star \/ pat[i] = f[i]

files_matches_patterns(files, patterns, rootpath) ==
    \E f \in files : \E pat \in patterns :
        PathMatch(to_absolute_path(f, rootpath), to_absolute_path(pat, rootpath))

----------------------------------------------------------------------------
(* Input universes *)

FileA == <<"a", ".", "c">>
FileMd == <<"r", ".", "m", "d">>
FileNamedMd == <<"m", "d">>
DirP == <<"p">>
DirQ == <<"q">>
DirS == <<"s">>
DirX == <<"x">>

AppDirs == {Rel(<<DirP>>), Abs(<<DirQ>>)}

Files == {
    Rel(<<DirP, FileA>>),                   \* /w/p/a.c
    Abs(<<<<"w">>, DirP, FileMd>>),         \* /w/p/r.md
    Abs(<<<<"w">>, DirP, DirS, FileA>>),    \* /w/p/s/a.c
    Rel(<<DirP, FileNamedMd>>),             \* /w/p/md
    Rel(<<DirP, DotDot, DirX, FileA>>),     \* /w/x/a.c
    Abs(<<DirQ, DirS, FileMd>>),            \* /q/s/r.md
    Abs(<<DirQ, FileA>>),                   \* /q/a.c
    Abs(<<<<"w">>, DirP>>) }                \* /w/p, the directory itself

Components == {"c1", "c2", "c3"}

FilePatterns == {Rel(<<DirX, Star>>), Rel(<<DirP, FileMd>>)}

\* Optional[List]: None, or a list (here the set of its elements)
None == [is_none |-> TRUE, list |-> {}]
List(s) == [is_none |-> FALSE, list |-> s]

BoundedSubsets(S, n) == {s \in SUBSET S : Cardinality(s) <= n}

ModifiedFilesInputs == {None} \cup {List(s) : s \in BoundedSubsets(Files, MaxModifiedFiles)}
ModifiedComponentsInputs ==
    {None} \cup {List(s) : s \in BoundedSubsets(Components, MaxModifiedComponents)}

Args == [manifest_rootpath : {Cwd},
         check_app_dependencies : BOOLEAN,
         modified_components : ModifiedComponentsInputs,
         modified_files : ModifiedFilesInputs]

----------------------------------------------------------------------------
(* App.is_modified, app.py 604-615 *)

is_modified_md_counts(modified_files) ==
    /\ ~modified_files.is_none
    /\ \E f \in modified_files.list :
          InParents(to_absolute_path(app.app_dir, Cwd), to_absolute_path(f, Cwd))

is_modified(modified_files) ==
    /\ ~modified_files.is_none
    /\ \E f \in modified_files.list :
          /\ ~EndsWith(to_absolute_path(f, Cwd)[Len(to_absolute_path(f, Cwd))], DotMd)
          /\ InParents(to_absolute_path(app.app_dir, Cwd), to_absolute_path(f, Cwd))

(* the component signal of check_should_build, app.py 641-656 *)

ComponentSignalSilenceIsNo(a) ==
    IF a.check_app_dependencies /\ ~a.modified_components.is_none
    THEN IF app.depends_components \cap a.modified_components.list # {} THEN YES ELSE NO
    ELSE UNKNOWN

\* a missing list of modified components is read as an empty one
ComponentSignalWithoutList(a) ==
    IF a.check_app_dependencies
    THEN IF app.depends_components \cap a.modified_components.list # {} THEN YES
         ELSE IF app.depends_components # {} THEN NO
         ELSE UNKNOWN
    ELSE UNKNOWN

ComponentSignal(a) ==
    IF a.check_app_dependencies /\ ~a.modified_components.is_none
    THEN IF app.depends_components \cap a.modified_components.list # {} THEN YES
         ELSE IF app.depends_components # {} THEN NO
         ELSE UNKNOWN
    ELSE UNKNOWN

(* the file-pattern signal of check_should_build, app.py 642, 658-670 *)

FilePatternSignal(a) ==
    IF a.check_app_dependencies /\ ~a.modified_files.is_none
    THEN IF files_matches_patterns(a.modified_files.list, app.depends_filepatterns,
                                   a.manifest_rootpath) THEN YES
         ELSE IF app.depends_filepatterns # {} THEN NO
         ELSE UNKNOWN
    ELSE UNKNOWN

(* the combination of the two signals, app.py 672-677: the decision written, *)
(* given the decision so far                                                *)

CombineEitherNo(sb, C, F) ==
    IF C = YES \/ F = YES THEN YES
    ELSE IF C = NO \/ F = NO THEN NO
    ELSE sb

\* the file-pattern signal, and not the component signal, decides No
CombineFilesDecideNo(sb, C, F) ==
    IF C = YES \/ F = YES THEN YES
    ELSE IF F = NO THEN NO
    ELSE sb

Combine(sb, C, F) ==
    IF C = YES \/ F = YES THEN YES
    ELSE IF C = NO THEN NO
    ELSE sb

(* App.check_should_build, app.py 617-679: the new (should_build,           *)
(* _checked_should_build)                                                   *)

Decided(sb, chk) == [should_build |-> sb, checked |-> chk]

check_should_build_not_sticky(a) ==
    IF ~a.check_app_dependencies THEN Decided(YES, TRUE)
    ELSE IF is_modified(a.modified_files) THEN Decided(YES, TRUE)
    ELSE Decided(Combine(UNKNOWN, ComponentSignal(a), FilePatternSignal(a)), TRUE)

check_should_build_dependencies_first(a) ==
    IF should_build # UNKNOWN THEN Decided(should_build, checked_should_build)
    ELSE IF a.check_app_dependencies /\ is_modified(a.modified_files) THEN Decided(YES, TRUE)
    ELSE IF a.check_app_dependencies
         THEN Decided(Combine(should_build, ComponentSignal(a), FilePatternSignal(a)), TRUE)
    ELSE IF a.modified_components.is_none /\ a.modified_files.is_none THEN Decided(YES, TRUE)
    ELSE Decided(should_build, TRUE)

check_should_build(a) ==
    IF should_build # UNKNOWN THEN Decided(should_build, checked_should_build)
    ELSE IF ~a.check_app_dependencies THEN Decided(YES, TRUE)
    ELSE IF is_modified(a.modified_files) THEN Decided(YES, TRUE)
    ELSE Decided(Combine(should_build, ComponentSignal(a), FilePatternSignal(a)), TRUE)

----------------------------------------------------------------------------
(* A caller invokes app.check_should_build(...) *)

CallCheckShouldBuild(inputs) ==
    /\ pc \in {"constructed", "checked"}
    /\ \E a \in inputs :
          /\ args' = a
          /\ should_build' = check_should_build(a).should_build
          /\ checked_should_build' = check_should_build(a).checked
    /\ before' = should_build
    /\ pc' = "checked"
    /\ UNCHANGED <<app, ctorState, buildState>>

----------------------------------------------------------------------------
(* The file system.  What exists is a set of names:                       *)
(*   work_dir    the work directory, when it is not the app directory      *)
(*   build_path  the build directory, inside the work directory            *)
(*   sdkconfig   the sdkconfig file of the work directory                  *)
(*   build_log, size_json, map, objs   files inside the build directory    *)
(*   tmp_log     the NamedTemporaryFile of this build()                    *)

InBuildPath == {"build_log", "size_json", "map", "objs"}
BuildTree == {"build_path"} \cup InBuildPath
WorkTree == {"work_dir", "sdkconfig"} \cup BuildTree

\* shutil.rmtree
rmtree(files, tree) == files \ tree

\* utils.rmdir(path, exclude_file_patterns): without patterns the whole tree
\* goes; with patterns every file not matching one goes and the directory stays
rmdir(files, exclude_list) ==
    IF exclude_list = {} THEN files \ BuildTree
    ELSE files \ (InBuildPath \ exclude_list)

\* utils.find_first_match('*.map', build_path)
find_first_match_map(files) == "map" \in files

----------------------------------------------------------------------------
(* The log.  A line is a tuple of words; " " is white space.               *)

MaxLogLines == 1

LOG_DEBUG_LINES == 25

\* App.IGNORE_WARNS_REGEXES, a class attribute its users assign
IGNORE_WARNS_REGEXES == {"deprecated"}

LogLines == {
    <<" ">>,
    <<"ok">>,
    <<"warning:", "unused", " ">>,
    <<"CMake", "Error:", "deprecated">> }

Outputs(n) == UNION {[1..k -> LogLines] : k \in 0..n}

\* re.IGNORECASE
Lower(w) == CASE w = "Error:" -> "error:" [] OTHER -> w

\* str.rstrip
RECURSIVE rstrip(_)
rstrip(line) ==
    IF line # <<>> /\ line[Len(line)] = " " THEN rstrip(SubSeq(line, 1, Len(line) - 1))
    ELSE line

\* App.is_error_or_warning, app.py 588-598
is_error_or_warning_nothing_ignored(line) ==
    <<\E i \in 1..Len(line) : Lower(line[i]) \in {"error:", "warning:"}, FALSE>>

is_error_or_warning(line) ==
    IF ~\E i \in 1..Len(line) : Lower(line[i]) \in {"error:", "warning:"}
    THEN <<FALSE, FALSE>>
    ELSE <<TRUE, \E ignored \in IGNORE_WARNS_REGEXES : \E i \in 1..Len(line) : line[i] = ignored>>

\* [line.rstrip() for line in fr.readlines() if line.rstrip()], app.py 478
RECURSIVE StrippedLines(_)
StrippedLines(l) ==
    IF l = <<>> THEN <<>>
    ELSE IF rstrip(Head(l)) = <<>> THEN StrippedLines(Tail(l))
    ELSE <<rstrip(Head(l))>> \o StrippedLines(Tail(l))

\* lines[-n:]
LastLines(l, n) == IF Len(l) <= n THEN l ELSE SubSeq(l, Len(l) - n + 1, Len(l))

----------------------------------------------------------------------------
(* App.build, app.py 411-531, step by step *)

NoError == "None"

\* one entry of ops: the operation, and the log lines it was given (if any)
Ev(name) == [op |-> name, lines |-> <<>>]
EvLines(name, l) == [op |-> name, lines |-> l]

\* Preparing, app.py 418-448.  copied: what the app directory brings along
\* when it is copied to the work directory.
PreparedFsUnlinksInDryRun(files, copied) ==
    LET fs2 == IF ~app.work_dir_is_app_dir /\ ~app.dry_run
               THEN rmtree(files, WorkTree) \cup {"work_dir"} \cup copied
               ELSE files
        fs3 == IF app.dry_run THEN fs2 ELSE rmtree(fs2, BuildTree) \cup {"build_path"}
    IN  fs3 \ {"sdkconfig"}

PreparedFs(files, copied) ==
    LET fs2 == IF ~app.work_dir_is_app_dir /\ ~app.dry_run
               THEN rmtree(files, WorkTree) \cup {"work_dir"} \cup copied
               ELSE files
        fs3 == IF app.dry_run THEN fs2 ELSE rmtree(fs2, BuildTree) \cup {"build_path"}
    IN  IF app.dry_run THEN fs3 ELSE fs3 \ {"sdkconfig"}

PreparedOps(files, copied) ==
    LET copies == ~app.work_dir_is_app_dir
        fs2 == IF copies THEN rmtree(files, WorkTree) \cup {"work_dir"} \cup copied ELSE files
        fs3 == rmtree(fs2, BuildTree) \cup {"build_path"}
    IN  IF app.dry_run THEN <<>>
        ELSE (IF copies /\ "work_dir" \in files THEN <<Ev("rmtree(work_dir)")>> ELSE <<>>)
             \o (IF copies THEN <<Ev("copytree(app_dir, work_dir)")>> ELSE <<>>)
             \o (IF "build_path" \in fs2 THEN <<Ev("rmtree(build_path)")>> ELSE <<>>)
             \o <<Ev("makedirs(build_path)")>>
             \o (IF "sdkconfig" \in fs3 THEN <<Ev("unlink(sdkconfig)")>> ELSE <<>>)

\* the dry run answers with the decision: False for an App that is not to build
PreparingSkipsWhatIsNotToBuild(inputs) ==
    /\ pc \in {"constructed", "checked"}
    /\ \E a \in inputs : args' = a
    /\ before' = should_build
    /\ \E copied \in {{}, {"build_path", "sdkconfig"}} :
          /\ fs' = PreparedFs(fs, copied)
          /\ ops' = PreparedOps(fs, copied)
    /\ IF app.dry_run
       THEN pc' = "returned" /\ returned' = (IF should_build = NO THEN "False" ELSE "True")
       ELSE pc' = "open_log" /\ returned' = "None"
    /\ raised' = NoError
    /\ log' = <<>>
    /\ keep_logfile' = FALSE
    /\ build_with_error' = NoError
    /\ is_built' = FALSE
    /\ lines' = <<>>
    /\ has_unignored_warning' = FALSE
    /\ build_components' = {}
    /\ UNCHANGED <<appState, ctorState>>

Preparing(inputs) ==
    /\ pc \in {"constructed", "checked"}
    /\ \E a \in inputs : args' = a
    /\ before' = should_build
    /\ \E copied \in {{}, {"build_path", "sdkconfig"}} :
          /\ fs' = PreparedFs(fs, copied)
          /\ ops' = PreparedOps(fs, copied)
    /\ IF app.dry_run
       THEN pc' = "returned" /\ returned' = "True"
       ELSE pc' = "open_log" /\ returned' = "None"
    /\ raised' = NoError
    /\ log' = <<>>
    /\ keep_logfile' = FALSE
    /\ build_with_error' = NoError
    /\ is_built' = FALSE
    /\ lines' = <<>>
    /\ has_unignored_warning' = FALSE
    /\ build_components' = {}
    /\ UNCHANGED <<appState, ctorState>>

\* app.py 450-460
OpenLog ==
    /\ pc = "open_log"
    /\ IF app.build_log_path
       THEN /\ fs' = fs \cup {"build_log"}
            /\ ops' = Append(ops, Ev("open(build_log)"))
            /\ keep_logfile' = TRUE
       ELSE /\ fs' = fs \cup {"tmp_log"}
            /\ ops' = Append(ops, Ev("open(tmp_log)"))
            /\ keep_logfile' = FALSE
    /\ log' = <<>>
    /\ build_with_error' = NoError
    /\ is_built' = FALSE
    /\ pc' = "run"
    /\ UNCHANGED <<appState, ctorState, callState, lines, has_unignored_warning, build_components,
                   raised, returned>>

\* The end of the try statement around _build, app.py 462-473: what _build
\* returned, or the BuildError it raised
AfterBuild(built, error) ==
    /\ is_built' = built
    /\ build_with_error' = error
    /\ pc' = "classify"
    /\ UNCHANGED <<app, ctorState, callState, keep_logfile, lines, has_unignored_warning, raised, returned>>

\* the build_components of project_description.json, app.py 814-815
BuildComponents == {{}, {"c1"}, {"c2", "c3"}}

\* What the toolchain leaves behind
Artifacts == {{"sdkconfig", "objs"}, {"sdkconfig", "objs", "map"}}

\* MakeApp._build, app.py 699-730
MakeBuild ==
    /\ pc = "run"
    /\ app.variant = "make"
    /\ UNCHANGED <<should_build, checked_should_build, build_components>>
    /\ \E out1 \in Outputs(MaxLogLines) :
        \/ /\ log' = out1
           /\ ops' = Append(ops, Ev("make defconfig"))
           /\ fs' = fs
           /\ AfterBuild(FALSE, "Command make defconfig failed")
        \/ \E out2 \in Outputs(MaxLogLines - Len(out1)), made \in Artifacts :
             /\ log' = out1 \o out2
             /\ ops' = ops \o <<Ev("make defconfig"), Ev("make -j")>>
             /\ fs' = fs \cup made
             /\ \/ AfterBuild(TRUE, NoError)
                \/ AfterBuild(FALSE, "Command make -j failed")

\* the build_components are asked of the toolchain even when no modified
\* components were supplied
ReconfiguresWithoutData(decision, a) ==
    /\ a.check_app_dependencies
    /\ decision = UNKNOWN

\* the condition of the reconfigure-only invocation, app.py 805-809
Reconfigures(decision, a) ==
    /\ ~a.modified_components.is_none
    /\ a.check_app_dependencies
    /\ decision = UNKNOWN

\* CMakeApp._build, app.py 769-854
CMakeBuild ==
    /\ pc = "run"
    /\ app.variant = "cmake"
    /\ LET checked == IF ~checked_should_build THEN check_should_build(args)
                      ELSE Decided(should_build, checked_should_build)
           reconfigures == Reconfigures(checked.should_build, args)
       IN  /\ checked_should_build' = checked.checked
           /\ \E out1 \in Outputs(IF reconfigures THEN MaxLogLines ELSE 0) :
               LET ops1 == IF reconfigures THEN Append(ops, Ev("idf.py reconfigure")) ELSE ops
                   fs1 == IF reconfigures THEN fs \cup {"sdkconfig"} ELSE fs
               IN
               \/ /\ reconfigures
                  /\ should_build' = checked.should_build
                  /\ UNCHANGED build_components
                  /\ log' = out1
                  /\ ops' = ops1
                  /\ fs' = fs1
                  /\ AfterBuild(FALSE, "Command idf.py reconfigure failed")
               \/ /\ reconfigures
                  /\ build_components' \in BuildComponents
                  /\ args.modified_components.list \cap build_components' = {}
                  /\ should_build' = checked.should_build
                  /\ log' = out1
                  /\ ops' = ops1
                  /\ fs' = fs1
                  /\ AfterBuild(FALSE, NoError)
               \/ /\ ~reconfigures
                  /\ checked.should_build = NO
                  /\ should_build' = checked.should_build
                  /\ UNCHANGED build_components
                  /\ log' = out1
                  /\ ops' = ops1
                  /\ fs' = fs1
                  /\ AfterBuild(FALSE, NoError)
               \/ /\ \/ /\ reconfigures
                        /\ build_components' \in BuildComponents
                        /\ args.modified_components.list \cap build_components' # {}
                        /\ should_build' = YES
                     \/ /\ ~reconfigures
                        /\ checked.should_build # NO
                        /\ should_build' = checked.should_build
                        /\ UNCHANGED build_components
                  /\ \E out2 \in Outputs(MaxLogLines - Len(out1)), made \in Artifacts :
                        /\ log' = out1 \o out2
                        /\ ops' = Append(ops1, Ev("idf.py build"))
                        /\ fs' = fs1 \cup made
                        /\ \/ AfterBuild(TRUE, NoError)
                           \/ AfterBuild(FALSE, "Command idf.py build failed")

\* Classifying, app.py 475-486
Classifying ==
    /\ pc = "classify"
    /\ lines' = StrippedLines(log)
    /\ has_unignored_warning' =
          \E i \in 1..Len(StrippedLines(log)) :
              is_error_or_warning(StrippedLines(log)[i]) = <<TRUE, FALSE>>
    /\ ops' = Append(ops, EvLines("classify", StrippedLines(log)))
    /\ pc' = "debug"
    /\ UNCHANGED <<appState, ctorState, callState, fs, log, keep_logfile, build_with_error, is_built,
                   build_components, raised, returned>>

\* app.py 488-496
LastLinesOfLog ==
    /\ pc = "debug"
    /\ ops' = IF build_with_error # NoError
              THEN Append(ops, EvLines("LOGGER.error", LastLines(lines, LOG_DEBUG_LINES)))
              ELSE ops
    /\ pc' = "unlink"
    /\ UNCHANGED <<appState, ctorState, callState, fs, log, buildLocals, raised, returned>>

\* app.py 498-500
RemoveTemporaryLogAlways ==
    /\ pc = "unlink"
    /\ IF ~keep_logfile
       THEN fs' = fs \ {"tmp_log"} /\ ops' = Append(ops, Ev("unlink(tmp_log)"))
       ELSE UNCHANGED <<fs, ops>>
    /\ pc' = "size"
    /\ UNCHANGED <<appState, ctorState, callState, log, buildLocals, raised, returned>>

RemoveTemporaryLog ==
    /\ pc = "unlink"
    /\ IF ~keep_logfile /\ build_with_error = NoError
       THEN fs' = fs \ {"tmp_log"} /\ ops' = Append(ops, Ev("unlink(tmp_log)"))
       ELSE UNCHANGED <<fs, ops>>
    /\ pc' = "size"
    /\ UNCHANGED <<appState, ctorState, callState, log, buildLocals, raised, returned>>

\* App.write_size_json, app.py 544-583, as build() calls it: it returns, or the
\* size tool fails and its BuildError leaves build()
write_size_json ==
    \/ /\ ~find_first_match_map(fs)
       /\ ops' = ops \o <<Ev("write_size_json"), Ev(".map file not found")>>
       /\ UNCHANGED <<fs, raised>>
       /\ pc' = "clean"
    \/ /\ find_first_match_map(fs)
       /\ ops' = ops \o <<Ev("write_size_json"), Ev("idf_size.py")>>
       /\ \/ /\ fs' = fs \cup {"size_json"}
             /\ UNCHANGED raised
             /\ pc' = "clean"
          \/ /\ fs' \in {fs, fs \cup {"size_json"}}
             /\ raised' = "Command idf_size.py failed"
             /\ pc' = "raised"

\* Generate Size Files, app.py 502-504
SizeReportingWheneverConfigured ==
    /\ pc = "size"
    /\ IF app.size_json_path
       THEN write_size_json
       ELSE pc' = "clean" /\ UNCHANGED <<fs, ops, raised>>
    /\ UNCHANGED <<appState, ctorState, callState, log, buildLocals, returned>>

SizeReporting ==
    /\ pc = "size"
    /\ IF is_built /\ app.size_json_path
       THEN write_size_json
       ELSE pc' = "clean" /\ UNCHANGED <<fs, ops, raised>>
    /\ UNCHANGED <<appState, ctorState, callState, log, buildLocals, returned>>

\* the build directory is cleaned before the size report is made
CleaningBeforeSizeReporting ==
    /\ \/ /\ pc = "size"
          /\ ~app.preserve
          /\ \A i \in 1..Len(ops) : ops[i].op # "rmdir(build_path)"
          /\ fs' = rmdir(fs, {})
          /\ ops' = Append(ops, Ev("rmdir(build_path)"))
          /\ UNCHANGED pc
       \/ /\ pc = "clean"
          /\ pc' = "outcome"
          /\ UNCHANGED <<fs, ops>>
    /\ UNCHANGED <<appState, ctorState, callState, log, buildLocals, raised, returned>>

\* Cleanup build directory if not preserving, app.py 506-518
Cleaning ==
    /\ pc = "clean"
    /\ IF ~app.preserve
       THEN /\ fs' = rmdir(fs, (IF app.size_json_path THEN {"size_json"} ELSE {})
                               \cup (IF app.build_log_path THEN {"build_log"} ELSE {}))
            /\ ops' = Append(ops, Ev("rmdir(build_path)"))
       ELSE UNCHANGED <<fs, ops>>
    /\ pc' = "outcome"
    /\ UNCHANGED <<appState, ctorState, callState, log, buildLocals, raised, returned>>

\* app.py 520-531
OutcomeWarningsFirst ==
    /\ pc = "outcome"
    /\ IF app.check_warnings /\ has_unignored_warning
       THEN raised' = "Build succeeded with warnings" /\ pc' = "raised" /\ UNCHANGED returned
       ELSE IF build_with_error # NoError
       THEN raised' = build_with_error /\ pc' = "raised" /\ UNCHANGED returned
       ELSE returned' = (IF is_built THEN "True" ELSE "False")
            /\ pc' = "returned" /\ UNCHANGED raised
    /\ UNCHANGED <<appState, ctorState, callState, fs, log, buildLocals, ops>>

Outcome ==
    /\ pc = "outcome"
    /\ IF build_with_error # NoError
       THEN raised' = build_with_error /\ pc' = "raised" /\ UNCHANGED returned
       ELSE IF app.check_warnings /\ has_unignored_warning
       THEN raised' = "Build succeeded with warnings" /\ pc' = "raised" /\ UNCHANGED returned
       ELSE returned' = (IF is_built THEN "True" ELSE "False")
            /\ pc' = "returned" /\ UNCHANGED raised
    /\ UNCHANGED <<appState, ctorState, callState, fs, log, buildLocals, ops>>

----------------------------------------------------------------------------
(* App._expand, app.py 204-233.  A string is the sequence of its characters. *)

TARGET_PLACEHOLDER == <<"@", "t">>
WILDCARD_PLACEHOLDER == <<"@", "w">>
NAME_PLACEHOLDER == <<"@", "n">>
FULL_NAME_PLACEHOLDER == <<"@", "f">>
INDEX_PLACEHOLDER == <<"@", "i">>
PARALLEL_INDEX_PLACEHOLDER == <<"@", "p">>
IDF_VERSION_PLACEHOLDER == <<"@", "v">>

\* f'{IDF_VERSION_MAJOR}_{IDF_VERSION_MINOR}_{IDF_VERSION_PATCH}', app.py 215
IdfVersion == <<"5", "_", "1", "_", "0">>

StartsWith(s, sub) == Len(sub) <= Len(s) /\ SubSeq(s, 1, Len(sub)) = sub

\* str.find: the 0-based position of the first occurrence, or -1
Find(s, sub) ==
    LET at == {i \in 1..Len(s) : StartsWith(SubSeq(s, i, Len(s)), sub)}
    IN  IF at = {} THEN -1 ELSE (CHOOSE i \in at : \A j \in at : i <= j) - 1

\* str.replace: every occurrence, left to right, without rescanning what it put in
RECURSIVE Replace(_, _, _)
Replace(s, old, new) ==
    IF s = <<>> THEN <<>>
    ELSE IF StartsWith(s, old)
         THEN new \o Replace(SubSeq(s, Len(old) + 1, Len(s)), old, new)
         ELSE <<s[1]>> \o Replace(Tail(s), old, new)

\* os.environ, and the characters that cannot be part of a variable name
Environ == (<<"X">> :> <<"v">>)
NotInNames == {"$", "@", "/", ".", " ", "=", "\"", "#"}

\* the length of the variable name s starts with
RECURSIVE NameLength(_)
NameLength(s) ==
    IF s = <<>> \/ s[1] \in NotInNames THEN 0 ELSE 1 + NameLength(Tail(s))

\* os.path.expandvars: $name becomes the value of name when name is set
RECURSIVE expandvars(_)
expandvars(s) ==
    IF s = <<>> THEN <<>>
    ELSE IF s[1] # "$" THEN <<s[1]>> \o expandvars(Tail(s))
    ELSE LET n == NameLength(Tail(s))
             name == SubSeq(s, 2, n + 1)
             rest == SubSeq(s, n + 2, Len(s))
         IN  IF n > 0 /\ name \in DOMAIN Environ
             THEN Environ[name] \o expandvars(rest)
             ELSE <<"$">> \o name \o expandvars(rest)

\* os.path.basename
RECURSIVE basename(_)
basename(s) ==
    LET pos == Find(s, <<"/">>)
    IN  IF pos = -1 THEN s ELSE basename(SubSeq(s, pos + 2, Len(s)))

\* App.name, app.py 236-238
app_name(a) == basename(a.app_dir)

\* app.py 221-231: the wildcard, with the config name or without
ExpandWildcard(a, p) ==
    LET wildcard_pos == Find(p, WILDCARD_PLACEHOLDER)
        left_of_wildcard == IF wildcard_pos - 1 > 0 THEN wildcard_pos - 1 ELSE 0
        right_of_wildcard == wildcard_pos + Len(WILDCARD_PLACEHOLDER)
    IN  IF wildcard_pos = -1 THEN p
        ELSE IF a.config_name # <<>> THEN Replace(p, WILDCARD_PLACEHOLDER, a.config_name)
        ELSE SubSeq(p, 1, left_of_wildcard) \o SubSeq(p, right_of_wildcard + 1, Len(p))

_expand(a, raw) ==
    IF raw = <<>> THEN raw
    ELSE LET p1 == IF ~a.index.is_none THEN Replace(raw, INDEX_PLACEHOLDER, a.index.str)
                   ELSE raw
             p2 == Replace(p1, PARALLEL_INDEX_PLACEHOLDER, a.parallel_index)
             p3 == Replace(p2, IDF_VERSION_PLACEHOLDER, IdfVersion)
             p4 == Replace(p3, TARGET_PLACEHOLDER, a.target)
             p5 == Replace(p4, NAME_PLACEHOLDER, app_name(a))
             p6 == IF Find(p5, FULL_NAME_PLACEHOLDER) # -1
                   THEN Replace(p5, FULL_NAME_PLACEHOLDER, Replace(a.app_dir, <<"/">>, <<"_">>))
                   ELSE p5
         IN  expandvars(ExpandWildcard(a, p6))

\* A property of the App (work_dir, build_dir, ...) calls _expand on its raw path
CallExpand ==
    /\ pc = "constructed"
    /\ ~expanded.done
    /\ expanded' = [done |-> TRUE, value |-> _expand(app, path)]
    /\ pc' = "expanded"
    /\ UNCHANGED <<appState, callState, buildState, path, sdkconfigState>>

----------------------------------------------------------------------------
(* App._process_sdkconfig_files, app.py 296-366.  A line is the sequence of  *)
(* its symbols, a word such as TEST_GROUPS counting as one symbol; the line  *)
(* ends are left out.                                                        *)

SDKCONFIG_TEST_OPTS ==
    {<<"EXCLUDE_COMPONENTS">>, <<"TEST_EXCLUDE_COMPONENTS">>, <<"TEST_COMPONENTS">>}
SDKCONFIG_IGNORE_OPTS == {<<"TEST_GROUPS">>}
CONFIG_IDF_TARGET == <<"CONFIG_IDF_TARGET">>

\* key = m.group(1) if m else None
NoKey == <<>>

\* SDKCONFIG_LINE_REGEX.match, app.py 75: ^([^=]+)="?([^"\n]*)"?\n*$
SDKCONFIG_LINE_REGEX(line) ==
    LET eq == Find(line, <<"=">>)
        rest == SubSeq(line, eq + 2, Len(line))
        unquoted == IF rest # <<>> /\ rest[1] = "\"" THEN Tail(rest) ELSE rest
        quote == Find(unquoted, <<"\"">>)
        value == IF quote = -1 THEN unquoted ELSE SubSeq(unquoted, 1, quote)
        after == SubSeq(unquoted, Len(value) + 1, Len(unquoted))
    IN  IF eq >= 1 /\ after \in {<<>>, <<"\"">>}
        THEN [matched |-> TRUE, key |-> SubSeq(line, 1, eq), value |-> value]
        ELSE [matched |-> FALSE, key |-> NoKey, value |-> <<>>]

\* d[key] = value on a dictionary
SetItem(d, key, value) == [k \in DOMAIN d \cup {key} |-> IF k = key THEN value ELSE d[k]]

\* the test options and the ignored options are dropped whatever the variant is
ProcessLineOfAnyVariant(variant, st, raw) ==
    LET line == expandvars(raw)
        m == SDKCONFIG_LINE_REGEX(line)
        st1 == IF m.key = CONFIG_IDF_TARGET THEN [st EXCEPT !.target = m.value] ELSE st
    IN  IF m.key \in SDKCONFIG_TEST_OPTS
        THEN [st1 EXCEPT !.cmake_vars = SetItem(@, m.key, m.value)]
        ELSE IF m.key \in SDKCONFIG_IGNORE_OPTS THEN st1
        ELSE [st1 EXCEPT !.out = Append(@, line)]

\* one line of a file, app.py 316-334: st holds the lines written so far, the
\* cmake_vars and the target defined so far
ProcessLine(variant, st, raw) ==
    LET line == expandvars(raw)
        m == SDKCONFIG_LINE_REGEX(line)
        st1 == IF m.key = CONFIG_IDF_TARGET THEN [st EXCEPT !.target = m.value] ELSE st
    IN  IF variant = "cmake" /\ m.key \in SDKCONFIG_TEST_OPTS
        THEN [st1 EXCEPT !.cmake_vars = SetItem(@, m.key, m.value)]
        ELSE IF variant = "cmake" /\ m.key \in SDKCONFIG_IGNORE_OPTS THEN st1
        ELSE [st1 EXCEPT !.out = Append(@, line)]

\* for line in fr, app.py 315
RECURSIVE ProcessLines(_, _, _)
ProcessLines(variant, st, raws) ==
    IF raws = <<>> THEN st
    ELSE ProcessLines(variant, ProcessLine(variant, st, Head(raws)), Tail(raws))

\* the scratch directories and the path of a scratch copy, app.py 303, 313
ExpandedRoot == "expanded_sdkconfig_files"
ExpandedDir == "expanded_sdkconfig_files/build_dir"
OtherExpandedDir == "expanded_sdkconfig_files/other"
ExpandedFp(f) == [dir |-> ExpandedDir, base |-> f.base]

\* self._sdkconfig_defaults + ([self.sdkconfig_path] if self.sdkconfig_path else [])
NoPath == [dir |-> "", base |-> <<>>]

\* the overlay is read before the defaults
CandidatesOverlayFirst(a) ==
    (IF a.sdkconfig_path # NoPath THEN <<a.sdkconfig_path>> ELSE <<>>) \o a.sdkconfig_defaults

Candidates(a) ==
    a.sdkconfig_defaults \o (IF a.sdkconfig_path # NoPath THEN <<a.sdkconfig_path>> ELSE <<>>)

\* the scratch copy stays although it equals the original
NeverUnlinked(files, base, same) == files

\* os.unlink(expanded_fp) when the contents are the same, app.py 337-343
Unlinked(files, base, same) ==
    IF same THEN [n \in DOMAIN files \ {base} |-> files[n]] ELSE files

\* the lines of a target-specific sdkconfig file
TargetSpecificLines == <<<<"CONFIG_T", "=", "y">>>>

\* app.py 304-305
MakeExpandedDir ==
    /\ pc = "constructed"
    /\ dirs' = dirs \cup {ExpandedRoot, ExpandedDir}
    /\ res' = <<>>
    /\ candidate' = 1
    /\ pc' = "sdkconfig"
    /\ UNCHANGED <<appState, callState, buildState, expandState, disk, scratch,
                   sdkconfig_files, sdkconfig_files_defined_target, cmake_vars>>

\* one turn of the loop over the files, app.py 307-353
ProcessSdkconfigFile ==
    /\ pc = "sdkconfig"
    /\ candidate <= Len(Candidates(app))
    /\ candidate' = candidate + 1
    /\ LET f == Candidates(app)[candidate]
           st == ProcessLines(app.variant,
                              [out |-> <<>>, cmake_vars |-> cmake_vars,
                               target |-> sdkconfig_files_defined_target],
                              disk[f].lines)
           same == st.out = disk[f].lines
           written == SetItem(scratch, f.base, st.out)
           specific == f.base \o <<".">> \o app.target
       IN  IF ~disk[f].exists
           THEN UNCHANGED <<scratch, res, sdkconfig_files_defined_target, cmake_vars>>
           ELSE /\ sdkconfig_files_defined_target' = st.target
                /\ cmake_vars' = st.cmake_vars
                /\ res' = Append(res, IF same THEN f ELSE ExpandedFp(f))
                /\ scratch' = IF ~same /\ disk[f].target_specific
                              THEN SetItem(written, specific, TargetSpecificLines)
                              ELSE Unlinked(written, f.base, same)
    /\ UNCHANGED <<appState, callState, pc, buildState, expandState, disk, dirs,
                   sdkconfig_files>>

\* app.py 355-366: os.rmdir removes a directory only when it is empty
RemoveExpandedDirs ==
    /\ pc = "sdkconfig"
    /\ candidate > Len(Candidates(app))
    /\ LET dirs1 == IF DOMAIN scratch = {} THEN dirs \ {ExpandedDir} ELSE dirs
       IN  dirs' = IF dirs1 \cap {ExpandedDir, OtherExpandedDir} = {}
                   THEN dirs1 \ {ExpandedRoot} ELSE dirs1
    /\ sdkconfig_files' = res
    /\ pc' = "processed"
    /\ UNCHANGED <<appState, callState, buildState, expandState, disk, scratch, candidate,
                   res, sdkconfig_files_defined_target, cmake_vars>>

\* build() on the files of the sdkconfig pipeline, app.py 420-427: a work
\* directory that is not the app directory is removed with everything below
\* it, the scratch directories included, and the app directory is copied
\* there again.  The work directory was a copy of the app directory before,
\* so the original files are there again; the app directory holds no
\* expanded_sdkconfig_files.
PrepareWorkDir ==
    /\ pc = "processed"
    /\ IF app.work_dir_is_app_dir
       THEN UNCHANGED <<scratch, dirs>>
       ELSE scratch' = <<>> /\ dirs' = {}
    /\ pc' = "prepared"
    /\ UNCHANGED <<appState, callState, buildState, expandState, disk, candidate, res,
                   sdkconfig_files, sdkconfig_files_defined_target, cmake_vars>>

----------------------------------------------------------------------------
(* The App after construction, app.py 89-160.  The manifest answers        *)
(* depends_components and depends_filepatterns (app.py 376-388): both are  *)
(* empty when no manifest is set.                                          *)

NoArgs == [manifest_rootpath |-> Cwd, check_app_dependencies |-> FALSE,
           modified_components |-> None, modified_files |-> None]

\* the field defaults of app.py 106-110 and 143-147, for the decision alone
AppsDecide ==
    [variant : {"cmake"},
     app_dir : AppDirs,
     dry_run : {FALSE},
     check_warnings : {FALSE},
     preserve : {TRUE},
     build_log_path : {FALSE},
     size_json_path : {FALSE},
     work_dir_is_app_dir : {TRUE},
     depends_components : SUBSET {"c1", "c2"},
     depends_filepatterns : SUBSET FilePatterns]

Apps ==
    [variant : {"make", "cmake"},
     app_dir : {Rel(<<DirP>>)},
     dry_run : BOOLEAN,
     check_warnings : BOOLEAN,
     preserve : BOOLEAN,
     build_log_path : BOOLEAN,
     size_json_path : BOOLEAN,
     work_dir_is_app_dir : BOOLEAN,
     depends_components : {{}, {"c1"}},
     depends_filepatterns : {{}}]

\* the arguments build() is called with
BuildArgs ==
    [manifest_rootpath : {Cwd},
     check_app_dependencies : BOOLEAN,
     modified_components : {None, List({"c1"}), List({"c2"})},
     modified_files : {None}]

\* nothing built yet, or what an earlier build left behind
FreshFs(a) == IF a.work_dir_is_app_dir THEN {"work_dir"} ELSE {}
StaleFs == {"work_dir", "build_path", "sdkconfig", "objs", "build_log"}

\* the App fields _expand reads
NoIndex == [is_none |-> TRUE, str |-> <<>>]
ExpandApps ==
    [variant : {"cmake"},
     app_dir : {<<"d", "/", "n">>, <<"d", "/", "@", "w">>},
     target : {<<"e">>},
     config_name : {<<>>, <<"c", "f", "g", "1">>},
     index : {NoIndex},
     parallel_index : {<<"1">>}]

\* the raw paths: up to n of these pieces, one after the other
PathPieces ==
    {<<"a">>, <<"_">>, <<"b">>, WILDCARD_PLACEHOLDER, TARGET_PLACEHOLDER, NAME_PLACEHOLDER,
     FULL_NAME_PLACEHOLDER, <<"$", "X">>}
RECURSIVE Flatten(_)
Flatten(pieces) == IF pieces = <<>> THEN <<>> ELSE Head(pieces) \o Flatten(Tail(pieces))
RawPaths(n) == {Flatten(ps) : ps \in UNION {[1..m -> PathPieces] : m \in 0..n}}

\* no path expanded yet
InitExpandIdle ==
    /\ path = <<>>
    /\ expanded = [done |-> FALSE, value |-> <<>>]

\* no sdkconfig file processed yet
InitSdkconfigIdle ==
    /\ disk = <<>>
    /\ scratch = <<>>
    /\ dirs = {}
    /\ candidate = 1
    /\ res = <<>>
    /\ sdkconfig_files = <<>>
    /\ sdkconfig_files_defined_target = <<>>
    /\ cmake_vars = <<>>

InitCommon ==
    /\ checked_should_build = FALSE
    /\ args = NoArgs
    /\ before = should_build
    /\ pc = "constructed"
    /\ log = <<>>
    /\ keep_logfile = FALSE
    /\ build_with_error = NoError
    /\ is_built = FALSE
    /\ lines = <<>>
    /\ has_unignored_warning = FALSE
    /\ build_components = {}
    /\ ops = <<>>
    /\ raised = NoError
    /\ returned = "None"

InitDecide ==
    /\ app \in AppsDecide
    /\ should_build \in BuildOrNot
    /\ fs = FreshFs(app)
    /\ InitCommon
    /\ InitExpandIdle
    /\ InitSdkconfigIdle

\* one call of check_should_build on a new App, over all the inputs
NextDecide == pc = "constructed" /\ CallCheckShouldBuild(Args)

SpecDecide == InitDecide /\ [][NextDecide]_vars

Init ==
    /\ app \in Apps
    /\ should_build = UNKNOWN
    /\ fs \in {FreshFs(app), StaleFs}
    /\ InitCommon
    /\ InitExpandIdle
    /\ InitSdkconfigIdle

Next ==
    \/ CallCheckShouldBuild(BuildArgs)
    \/ Preparing(BuildArgs)
    \/ OpenLog
    \/ MakeBuild
    \/ CMakeBuild
    \/ Classifying
    \/ LastLinesOfLog
    \/ RemoveTemporaryLog
    \/ SizeReporting
    \/ Cleaning
    \/ Outcome

Spec == Init /\ [][Next]_vars

\* the sdkconfig files of the App: two of the same name in two directories, or
\* two of different names in one.  A relative path is joined to the work
\* directory (app.py 308-309), which is the app directory or its copy: "app".
SdkconfigDefaults == [dir |-> "app", base |-> <<"sdkconfig.defaults">>]
CommonSdkconfigDefaults == [dir |-> "common", base |-> <<"sdkconfig.defaults">>]
SdkconfigCi == [dir |-> "app", base |-> <<"sdkconfig.ci">>]
SdkconfigApps ==
    [variant : {"make", "cmake"},
     target : {<<"esp32">>},
     work_dir_is_app_dir : BOOLEAN,
     sdkconfig_defaults : {<<SdkconfigDefaults>>},
     sdkconfig_path : {SdkconfigCi}]
    \cup
    [variant : {"make", "cmake"},
     target : {<<"esp32">>},
     work_dir_is_app_dir : BOOLEAN,
     sdkconfig_defaults : {<<CommonSdkconfigDefaults, SdkconfigDefaults>>},
     sdkconfig_path : {NoPath}]

\* the lines an sdkconfig file is made of
SdkconfigLines ==
    {<<"CONFIG_A", "=", "y">>,
     <<"TEST_GROUPS", "=", "g">>,
     <<"TEST_COMPONENTS", "=", "\"", "foo", "\"">>,
     <<"TEST_COMPONENTS", "=", "bar">>,
     <<"CONFIG_B", "=", "$", "X">>,
     <<"#", " ", "TEST_GROUPS", "=", "x">>,
     <<"CONFIG_IDF_TARGET", "=", "\"", "esp32", "\"">>,
     <<"CONFIG_IDF_TARGET", "=", "esp32s3">>}
LinesOfLength(n) == [1..n -> SdkconfigLines]
LinesUpTo(n) == UNION {LinesOfLength(m) : m \in 0..n}
MissingFile == [exists |-> FALSE, lines |-> <<>>, target_specific |-> FALSE]
File(l, specific) == [exists |-> TRUE, lines |-> l, target_specific |-> specific]

\* the contents of the two files: n lines in all, or one file missing
FilePairs(n) ==
    UNION {{<<File(l1, specific), File(l2, FALSE)>> :
               l1 \in LinesOfLength(m), l2 \in LinesUpTo(n - m),
               specific \in BOOLEAN} : m \in 0..n}
    \cup {<<MissingFile, File(l, FALSE)>> : l \in LinesUpTo(n)}
    \cup {<<File(l, FALSE), MissingFile>> : l \in LinesUpTo(n)}

\* no scratch directory yet, the scratch of another build directory, or a
\* scratch copy an earlier App of the same build directory left
ScratchBefore ==
    {[dirs |-> {}, files |-> <<>>],
     [dirs |-> {ExpandedRoot, OtherExpandedDir}, files |-> <<>>],
     [dirs |-> {ExpandedRoot, ExpandedDir},
      files |-> SetItem(<<>>, <<"sdkconfig.defaults">>, <<<<"CONFIG_B", "=", "v">>>>)]}

\* App.__init__ up to its call of _process_sdkconfig_files, app.py 114-160
InitSdkconfig ==
    /\ app \in SdkconfigApps
    /\ should_build = UNKNOWN
    /\ fs = {}
    /\ InitCommon
    /\ InitExpandIdle
    /\ \E pair \in FilePairs(MaxSdkconfigLines) :
          disk = [f \in {Candidates(app)[1], Candidates(app)[2]} |->
                     IF f = Candidates(app)[1] THEN pair[1] ELSE pair[2]]
    /\ \E before_ \in ScratchBefore : scratch = before_.files /\ dirs = before_.dirs
    /\ candidate = 1
    /\ res = <<>>
    /\ sdkconfig_files = <<>>
    /\ sdkconfig_files_defined_target = <<>>
    /\ cmake_vars = <<>>

NextSdkconfig ==
    \/ MakeExpandedDir
    \/ ProcessSdkconfigFile
    \/ RemoveExpandedDirs
    \/ PrepareWorkDir

SpecSdkconfig == InitSdkconfig /\ [][NextSdkconfig]_vars

\* one call of _expand on a new App, over the raw paths
InitExpand ==
    /\ app \in ExpandApps
    /\ should_build = UNKNOWN
    /\ fs = {}
    /\ InitCommon
    /\ path \in RawPaths(MaxPathPieces)
    /\ expanded = [done |-> FALSE, value |-> <<>>]
    /\ InitSdkconfigIdle

NextExpand == CallExpand

SpecExpand == InitExpand /\ [][NextExpand]_vars

----------------------------------------------------------------------------
(* Properties *)

Terminal == {"returned", "raised"}

\* the positions of an operation in ops
At(name) == {i \in 1..Len(ops) : ops[i].op = name}
Did(name) == At(name) # {}
\* every `first` comes before every `then`
Precedes(first, then) == \A i \in At(first), j \in At(then) : i < j

\* the modified files of the universe that lie inside the app directory and
\* whose name does not end in .md, listed by hand
InAppNotMd ==
    IF app.app_dir = Rel(<<DirP>>)
    THEN {Rel(<<DirP, FileA>>), Abs(<<<<"w">>, DirP, DirS, FileA>>), Rel(<<DirP, FileNamedMd>>)}
    ELSE {Abs(<<DirQ, FileA>>)}

\* the last call was check_should_build on an undecided App, checking dependencies
CheckedWithDependencies ==
    /\ pc = "checked"
    /\ before = UNKNOWN
    /\ args.check_app_dependencies

\* C1: should_build changes only from Unknown, and only to Yes or No: once it
\* is Yes or No no call of check_should_build or step of build() changes it.
C1_DecisionSticky ==
    [][should_build' # should_build => (should_build = UNKNOWN /\ should_build' \in {YES, NO})]_vars

\* a second call with check_app_dependencies = False on an App decided No
C1_Witness ==
    /\ pc = "checked"
    /\ before = NO
    /\ should_build = NO
    /\ ~args.check_app_dependencies

\* C2: check_should_build on an undecided App with check_app_dependencies =
\* False decides Yes, whatever the modified components, modified files and
\* declared dependencies are.
C2_NoDependencyCheckIsYes ==
    (pc = "checked" /\ before = UNKNOWN /\ ~args.check_app_dependencies) => should_build = YES

\* ... where the declared dependencies and the modified components are disjoint
C2_Witness ==
    /\ pc = "checked" /\ before = UNKNOWN /\ ~args.check_app_dependencies
    /\ should_build = YES
    /\ app.depends_components # {}
    /\ ~args.modified_components.is_none
    /\ args.modified_components.list # {}
    /\ args.modified_components.list \cap app.depends_components = {}
    /\ ~args.modified_files.is_none

\* C3: with dependency checking on, a modified file inside the app directory
\* whose name does not end in .md decides Yes whatever the dependencies and the
\* modified components are; files of the app directory ending in .md do not:
\* with only such files and nothing declared the decision is not Yes.
C3_ModifiedInAppIsYes ==
    /\ (CheckedWithDependencies /\ args.modified_files.list \cap InAppNotMd # {})
          => should_build = YES
    /\ (CheckedWithDependencies /\ args.modified_files.list \cap InAppNotMd = {}
          /\ app.depends_components = {} /\ app.depends_filepatterns = {})
          => should_build # YES

\* ... where the component signal alone says No
C3_Witness ==
    /\ CheckedWithDependencies
    /\ args.modified_files.list \cap InAppNotMd # {}
    /\ app.depends_components # {}
    /\ ~args.modified_components.is_none
    /\ args.modified_components.list \cap app.depends_components = {}
    /\ should_build = YES

\* C4: with nothing declared (no dependency components, no dependency file
\* patterns) and no qualifying modified file, check_should_build with
\* dependency checking on leaves the decision Unknown: it never says No.
C4_SilenceStaysUnknown ==
    (CheckedWithDependencies
       /\ app.depends_components = {} /\ app.depends_filepatterns = {}
       /\ args.modified_files.list \cap InAppNotMd = {})
    => should_build = UNKNOWN

\* ... with modified components and modified files both given and not empty
C4_Witness ==
    /\ CheckedWithDependencies
    /\ app.depends_components = {} /\ app.depends_filepatterns = {}
    /\ args.modified_files.list \cap InAppNotMd = {}
    /\ ~args.modified_components.is_none /\ args.modified_components.list # {}
    /\ ~args.modified_files.is_none /\ args.modified_files.list # {}
    /\ should_build = UNKNOWN

\* C5: when rules 1 and 2 do not apply the decision is Yes if the component
\* signal or the file-pattern signal is Yes, No if the component signal is No
\* and the file-pattern signal is not Yes, and Unknown otherwise.
C5_CombinationTable ==
    (CheckedWithDependencies /\ args.modified_files.list \cap InAppNotMd = {})
    => LET C == ComponentSignal(args)
           F == FilePatternSignal(args)
       IN  /\ (C = YES \/ F = YES) => should_build = YES
           /\ (C = NO /\ F # YES) => should_build = NO
           /\ (C = UNKNOWN /\ F \in {NO, UNKNOWN}) => should_build = UNKNOWN

\* ... component signal Unknown, file-pattern signal No
C5_Witness ==
    /\ CheckedWithDependencies
    /\ args.modified_files.list \cap InAppNotMd = {}
    /\ ComponentSignal(args) = UNKNOWN
    /\ FilePatternSignal(args) = NO
    /\ should_build = UNKNOWN

\* C6: build() on an App with dry_run = True returns True, runs no toolchain
\* command, changes nothing on the file system and opens no log file.
C6_DryRunTouchesNothing ==
    [][(app.dry_run /\ pc' \notin {"constructed", "checked"})
         => /\ pc' = "returned"
            /\ returned' = "True"
            /\ raised' = NoError
            /\ ops' = <<>>
            /\ fs' = fs]_vars

\* ... with a stale work directory, build directory and sdkconfig file in place
C6_Witness ==
    /\ app.dry_run
    /\ pc = "returned"
    /\ ~app.work_dir_is_app_dir
    /\ {"work_dir", "build_path", "sdkconfig"} \subseteq fs

\* a line with something other than white space in it
NonBlank(line) == \E i \in 1..Len(line) : line[i] # " "
NonBlankCount == Cardinality({i \in 1..Len(log) : NonBlank(log[i])})

\* C7: when the toolchain step failed, build() raises that very error, after
\* every non-blank log line was classified, the last lines were logged at error
\* level and (preserve = False) the build directory was cleaned.
C7_ToolchainErrorAfterDiagnostics ==
    (pc \in Terminal /\ build_with_error # NoError)
    => /\ pc = "raised"
       /\ raised = build_with_error
       /\ \E i \in At("classify") : Len(ops[i].lines) = NonBlankCount
       /\ \E j \in At("LOGGER.error") :
             /\ Len(ops[j].lines) = (IF NonBlankCount < LOG_DEBUG_LINES
                                     THEN NonBlankCount ELSE LOG_DEBUG_LINES)
       /\ Precedes("classify", "LOGGER.error")
       /\ ~app.preserve => Did("rmdir(build_path)")
       /\ Precedes("LOGGER.error", "rmdir(build_path)")

\* ... a failed build with lines in its log and preserve = False
C7_Witness ==
    /\ pc = "raised"
    /\ build_with_error # NoError
    /\ ~app.preserve
    /\ app.check_warnings /\ has_unignored_warning

\* the log file of this build()
LogFile == IF app.build_log_path THEN "build_log" ELSE "tmp_log"

\* C8: build() never deletes the log of a failed toolchain step: the scratch
\* log is deleted exactly when the toolchain step raised no error, and a
\* configured log survives the cleaning of the build directory.
C8_FailedLogKept ==
    (pc \in Terminal /\ ~app.dry_run)
    => /\ build_with_error # NoError => LogFile \in fs
       /\ ~app.build_log_path =>
             /\ Did("unlink(tmp_log)") <=> build_with_error = NoError
             /\ "tmp_log" \notin fs <=> build_with_error = NoError
       /\ (app.build_log_path /\ ~app.preserve) => "build_log" \in fs

\* ... a failed build without a configured log, cleaned afterwards
C8_Witness ==
    /\ pc = "raised"
    /\ build_with_error # NoError
    /\ ~app.build_log_path
    /\ ~app.preserve
    /\ "tmp_log" \in fs

\* the lines of the universe that carry "error:" or "warning:" and match no
\* ignore pattern, listed by hand
UnignoredLines == {<<"warning:", "unused", " ">>}
SawUnignored == \E i \in 1..Len(log) : log[i] \in UnignoredLines

WarningsError == "Build succeeded with warnings"

C10_SizeReportOnlyWhenBuilt ==
    [][pc = "size"
         => /\ Did("write_size_json")' <=> (is_built /\ app.size_json_path)
            /\ (build_with_error # NoError \/ (~Did("make -j") /\ ~Did("idf.py build")))
                  => ~Did("write_size_json")'
            /\ "map" \notin fs
                  => /\ ~Did("idf_size.py")'
                     /\ fs' = fs
                     /\ raised' = NoError
                     /\ pc' = "clean"]_vars

\* ... write_size_json called and no .map file found
C10_Witness ==
    /\ pc = "clean"
    /\ Did("write_size_json")
    /\ Did(".map file not found")
    /\ "size_json" \notin fs

\* the positions of build() after the toolchain step
AfterRun == {"classify", "debug", "unlink", "size", "clean", "outcome"} \cup Terminal

\* the external commands of the toolchain step
ToolchainCommands == {"make defconfig", "make -j", "idf.py reconfigure", "idf.py build"}
Issued == {i \in 1..Len(ops) : ops[i].op \in ToolchainCommands}

\* the files cleaning must keep
Excluded ==
    (IF app.size_json_path THEN {"size_json"} ELSE {})
    \cup (IF app.build_log_path THEN {"build_log"} ELSE {})

\* C11: when a build() that is not a dry run has returned or raised, the build
\* directory has been cleaned if and only if preserve is false; after cleaning
\* only the size report and the build log are left of it, a configured build
\* log is still there, and so is a size report the size tool wrote; with
\* preserve nothing of the build directory is gone.
C11_CleanedIffNotPreserved ==
    (pc \in Terminal /\ ~app.dry_run) =>
        /\ Did("rmdir(build_path)") <=> ~app.preserve
        /\ ~app.preserve => (fs \cap InBuildPath) \subseteq Excluded
        /\ app.build_log_path => "build_log" \in fs
        /\ (app.size_json_path /\ Did("idf_size.py") /\ raised # "Command idf_size.py failed")
               => "size_json" \in fs
        /\ app.preserve => "build_path" \in fs

\* C12: in either variant, once the toolchain step has run with the decision
\* No, no toolchain command was issued and build() reports skipped.
C12_NoMeansNoToolchain ==
    (pc \in AfterRun /\ ~app.dry_run /\ should_build = NO) =>
            /\ Issued = {}
            /\ ~is_built
            /\ pc = "returned" => returned = "False"

\* C13: in CMake, after a reconfigure that succeeded the decision is Yes when
\* the modified components intersect build_components and No when they do not.
C13_ReconfigureResolves ==
    (/\ app.variant = "cmake"
     /\ pc = "classify"
     /\ Did("idf.py reconfigure")
     /\ build_with_error = NoError) =>
        should_build = (IF args.modified_components.list \cap build_components # {}
                        THEN YES ELSE NO)

\* the two signals read off the inputs: the modified components were given,
\* the app declares dependency components and none of them was modified
ComponentsSayNo ==
    /\ ~args.modified_components.is_none
    /\ app.depends_components # {}
    /\ app.depends_components \cap args.modified_components.list = {}
ComponentsSilent == args.modified_components.is_none \/ app.depends_components = {}
FilesSayNo ==
    /\ ~args.modified_files.is_none
    /\ app.depends_filepatterns # {}
    /\ ~files_matches_patterns(args.modified_files.list, app.depends_filepatterns,
                               args.manifest_rootpath)
FilesSilent == args.modified_files.is_none \/ app.depends_filepatterns = {}

\* rules 1 and 2 of check_should_build did not decide
SignalsDecide ==
    /\ CheckedWithDependencies
    /\ args.modified_files.list \cap InAppNotMd = {}

\* C17 as stated: when one signal says No and the other is Unknown the decision
\* is No, whichever of the two says No.
C17_EitherNoIsNo ==
    /\ (SignalsDecide /\ ComponentsSayNo /\ FilesSilent) => should_build = NO
    /\ (SignalsDecide /\ FilesSayNo /\ ComponentsSilent) => should_build = NO

\* C17: a No of the component signal with the file-pattern signal Unknown
\* decides No; a No of the file-pattern signal with the component signal
\* Unknown leaves the decision Unknown.
C17_OnlyComponentNoIsNo ==
    /\ (SignalsDecide /\ ComponentsSayNo /\ FilesSilent) => should_build = NO
    /\ (SignalsDecide /\ FilesSayNo /\ ComponentsSilent) => should_build = UNKNOWN

\* ... the file patterns say No, modified components given, nothing declared
C17_Witness ==
    /\ SignalsDecide /\ FilesSayNo /\ ComponentsSilent
    /\ ~args.modified_components.is_none
    /\ args.modified_components.list # {}
    /\ should_build = UNKNOWN

\* C18 as stated: with the file-pattern signal out of the way (no modified files
\* given) the decision is the component signal: Yes if the modified components
\* are given and intersect the declared ones, otherwise No if the app declares
\* dependency components, a missing list included, otherwise Unknown.
C18_ComponentSignalAsStated ==
    (CheckedWithDependencies /\ args.modified_files.is_none) =>
        should_build =
            IF ~args.modified_components.is_none
               /\ app.depends_components \cap args.modified_components.list # {} THEN YES
            ELSE IF app.depends_components # {} THEN NO
            ELSE UNKNOWN

\* C18: ... Yes if the modified components are given and intersect the declared
\* ones, otherwise No if they are given and the app declares dependency
\* components, otherwise Unknown: without a list of modified components the
\* signal is Unknown whatever the app declares.
C18_ComponentSignal ==
    (CheckedWithDependencies /\ args.modified_files.is_none) =>
        should_build =
            IF ~args.modified_components.is_none
               /\ app.depends_components \cap args.modified_components.list # {} THEN YES
            ELSE IF ~args.modified_components.is_none /\ app.depends_components # {} THEN NO
            ELSE UNKNOWN

\* ... no list of modified components, dependency components declared
C18_Witness ==
    /\ CheckedWithDependencies
    /\ args.modified_files.is_none
    /\ args.modified_components.is_none
    /\ app.depends_components # {}
    /\ should_build = UNKNOWN

\* the phase of build() an operation of the trace belongs to
Phase(op) ==
    IF op \in {"rmtree(work_dir)", "copytree(app_dir, work_dir)", "rmtree(build_path)",
               "makedirs(build_path)", "unlink(sdkconfig)"} THEN 1
    ELSE IF op \in {"open(build_log)", "open(tmp_log)"} \cup ToolchainCommands THEN 2
    ELSE IF op \in {"classify", "LOGGER.error", "unlink(tmp_log)"} THEN 3
    ELSE IF op \in {"write_size_json", ".map file not found", "idf_size.py"} THEN 4
    ELSE 5

\* the operations of the build() that ended are in the order of the phases,
\* none of them was done twice, the build went through the first three phases
\* and through the other two only where they apply
PhasesInOrder ==
    /\ \A i \in 1..(Len(ops) - 1) : Phase(ops[i].op) <= Phase(ops[i + 1].op)
    /\ Cardinality({ops[i].op : i \in 1..Len(ops)}) = Len(ops)
    /\ ~(Did("open(build_log)") /\ Did("open(tmp_log)"))
    /\ Did("makedirs(build_path)")
    /\ Did("open(build_log)") \/ Did("open(tmp_log)")
    /\ Did("classify")
    /\ Did("write_size_json") => (is_built /\ app.size_json_path)
    /\ Did("rmdir(build_path)") => ~app.preserve

\* the toolchain commands issued so far, in order
IsToolchainCommand(e) == e.op \in ToolchainCommands
IssuedCommands ==
    LET issued == SelectSeq(ops, IsToolchainCommand)
    IN  [i \in 1..Len(issued) |-> issued[i].op]

C20_ReconfigureThenBuild ==
    (pc = "classify" /\ app.variant = "cmake") =>
        /\ Did("idf.py reconfigure") =>
              /\ before = UNKNOWN /\ should_build # NO
              /\ ~args.modified_components.is_none
              /\ args.check_app_dependencies
        /\ Precedes("idf.py reconfigure", "idf.py build")
        /\ (before = YES \/ (should_build = YES /\ ~args.check_app_dependencies)) =>
              (~Did("idf.py reconfigure") /\ Did("idf.py build"))
        /\ (should_build = UNKNOWN /\ args.modified_components.is_none) =>
              (~Did("idf.py reconfigure") /\ Did("idf.py build"))
        /\ (Did("idf.py reconfigure")
              /\ args.modified_components.list \cap build_components = {}) =>
              ~Did("idf.py build")

\* ... a reconfigure that succeeded and found no intersection
C20_Witness ==
    /\ pc = "classify"
    /\ app.variant = "cmake"
    /\ Did("idf.py reconfigure")
    /\ build_with_error = NoError
    /\ build_components # {}
    /\ args.modified_components.list \cap build_components = {}
    /\ ~Did("idf.py build")

\* the raw path holds no token but the wildcard and no variable reference
OnlyWildcards(p) ==
    \A i \in 1..Len(p) :
        /\ p[i] # "$"
        /\ p[i] = "@" => (i < Len(p) /\ p[i + 1] = "w")

\* the wildcard token and the character to its left removed, for every wildcard
\* of the path; the wildcard at position 0 loses the token only
RECURSIVE WithoutEveryWildcard(_)
WithoutEveryWildcard(p) ==
    LET pos == Find(p, WILDCARD_PLACEHOLDER)
    IN  IF pos = -1 THEN p
        ELSE IF pos = 0 THEN WithoutEveryWildcard(SubSeq(p, 3, Len(p)))
        ELSE WithoutEveryWildcard(SubSeq(p, 1, pos - 1) \o SubSeq(p, pos + 3, Len(p)))

\* C14: _expand of a raw path that holds wildcards only gives, with config_name
\* set, the path with every wildcard replaced by config_name, and with no
\* config_name the path with every wildcard removed together with the single
\* character to its left (at position 0, the wildcard alone).
C14_EveryWildcard ==
    (expanded.done /\ OnlyWildcards(path)) =>
        expanded.value = IF app.config_name # <<>>
                         THEN Replace(path, WILDCARD_PLACEHOLDER, app.config_name)
                         ELSE WithoutEveryWildcard(path)

\* the file the loop of _process_sdkconfig_files is at, when there is one
AtFile ==
    /\ pc = "sdkconfig"
    /\ candidate <= Len(Candidates(app))
    /\ disk[Candidates(app)[candidate]].exists
ThisFile == Candidates(app)[candidate]
ThisLines == disk[ThisFile].lines

\* the key of a line, after the expansion of its environment variables
KeyOf(raw) == SDKCONFIG_LINE_REGEX(expandvars(raw)).key
ValueOf(raw) == SDKCONFIG_LINE_REGEX(expandvars(raw)).value

\* no test option, no ignored option, no reference to an environment variable
IsNoOp(l) ==
    \A i \in 1..Len(l) :
        /\ KeyOf(l[i]) \notin SDKCONFIG_TEST_OPTS \cup SDKCONFIG_IGNORE_OPTS
        /\ \A k \in 1..Len(l[i]) : l[i][k] # "$"

\* C15: processing a file that holds no test option, no ignored option and no
\* environment reference appends the original path to the output list and
\* leaves no scratch copy under its name; when the loop is over the scratch
\* directory is removed if it is empty, and the scratch root if it then is, and
\* the output list becomes the App's list of sdkconfig files.
C15_NoOpFileKeepsItsPath ==
    [][/\ (AtFile /\ IsNoOp(ThisLines)) =>
              /\ res' = Append(res, ThisFile)
              /\ ThisFile.base \notin DOMAIN scratch'
       /\ (pc = "sdkconfig" /\ pc' = "processed") =>
              /\ sdkconfig_files' = res
              /\ DOMAIN scratch = {} => ExpandedDir \notin dirs'
              /\ (DOMAIN scratch = {} /\ OtherExpandedDir \notin dirs) => dirs' = {}
      ]_vars

\* ... two such files, the second under the name of a stale scratch copy, and
\* nothing left of the scratch directories
C15_Witness ==
    /\ pc = "processed"
    /\ Len(Candidates(app)) = 2
    /\ \A i \in 1..2 : /\ disk[Candidates(app)[i]].exists
                       /\ disk[Candidates(app)[i]].lines # <<>>
                       /\ IsNoOp(disk[Candidates(app)[i]].lines)
    /\ sdkconfig_files = Candidates(app)
    /\ app.variant = "cmake"
    /\ dirs = {}

\* the lines of l that are not dropped, expanded, in their order
RECURSIVE KeptLines(_)
KeptLines(l) ==
    IF l = <<>> THEN <<>>
    ELSE IF KeyOf(Head(l)) \in SDKCONFIG_TEST_OPTS \cup SDKCONFIG_IGNORE_OPTS
         THEN KeptLines(Tail(l))
         ELSE <<expandvars(Head(l))>> \o KeptLines(Tail(l))
ExpandedLines(l) == [i \in 1..Len(l) |-> expandvars(l[i])]

\* the normalized file of this turn holds exactly the lines `normalized`: it is
\* the scratch copy, or the original when nothing changed
NormalizedIs(normalized) ==
    IF normalized = ThisLines
    THEN res' = Append(res, ThisFile)
    ELSE /\ res' = Append(res, ExpandedFp(ThisFile))
         /\ scratch'[ThisFile.base] = normalized

\* C16: processing a file for a CMake App leaves every line whose key is
\* TEST_GROUPS or a test option out of the normalized file, records the value
\* of a test option in cmake_vars under its key (the last line of a key
\* counts) and TEST_GROUPS nowhere, and writes every other line, expanded, in
\* the original order; for a Make App no line is dropped and nothing recorded.
C16_KeyRouting ==
    [][AtFile =>
         IF app.variant = "cmake"
         THEN /\ NormalizedIs(KeptLines(ThisLines))
              /\ DOMAIN cmake_vars' \subseteq SDKCONFIG_TEST_OPTS
              /\ \A key \in SDKCONFIG_TEST_OPTS :
                    LET at == {i \in 1..Len(ThisLines) : KeyOf(ThisLines[i]) = key}
                        last == CHOOSE i \in at : \A j \in at : j <= i
                    IN  IF at = {}
                        THEN /\ key \in DOMAIN cmake_vars' <=> key \in DOMAIN cmake_vars
                             /\ key \in DOMAIN cmake_vars => cmake_vars'[key] = cmake_vars[key]
                        ELSE /\ key \in DOMAIN cmake_vars'
                             /\ cmake_vars'[key] = ValueOf(ThisLines[last])
         ELSE /\ NormalizedIs(ExpandedLines(ThisLines))
              /\ cmake_vars' = <<>>
      ]_vars

\* ... a CMake App with a file of a quoted test option and a line to keep
C16_Witness ==
    /\ pc = "processed"
    /\ app.variant = "cmake"
    /\ DOMAIN cmake_vars = {<<"TEST_COMPONENTS">>}
    /\ cmake_vars[<<"TEST_COMPONENTS">>] = <<"foo">>
    /\ \E n \in DOMAIN scratch : scratch[n] = <<<<"CONFIG_A", "=", "y">>>>

\* the value a token stands for, for an App with a config name and no index
TokenValue(a, token) ==
    CASE token = PARALLEL_INDEX_PLACEHOLDER -> a.parallel_index
      [] token = IDF_VERSION_PLACEHOLDER -> IdfVersion
      [] token = TARGET_PLACEHOLDER -> a.target
      [] token = NAME_PLACEHOLDER -> app_name(a)
      [] token = FULL_NAME_PLACEHOLDER -> Replace(a.app_dir, <<"/">>, <<"_">>)
      [] token = WILDCARD_PLACEHOLDER -> a.config_name
      [] OTHER -> token

\* every token of the raw path replaced by its value in one pass from left to
\* right: what a value brings in is never looked at again
RECURSIVE ExpandOnce(_, _)
ExpandOnce(a, p) ==
    IF p = <<>> THEN <<>>
    ELSE IF Len(p) >= 2 /\ p[1] = "@"
         THEN TokenValue(a, SubSeq(p, 1, 2)) \o ExpandOnce(a, SubSeq(p, 3, Len(p)))
         ELSE <<p[1]>> \o ExpandOnce(a, Tail(p))

\* C21: the expansion of a raw path never expands a token again that a
\* substituted value brought in: for an App with a config name, the result is
\* the raw path with each of its own tokens replaced once, and the variables
\* expanded after that.
C21_NoReexpansion ==
    (expanded.done /\ app.config_name # <<>>) =>
        expanded.value = expandvars(ExpandOnce(app, path))

\* the candidate files in input order, the defaults first and then the
\* overlay, and those of them that exist
InputOrder ==
    app.sdkconfig_defaults
    \o (IF app.sdkconfig_path # NoPath THEN <<app.sdkconfig_path>> ELSE <<>>)
ExistingInOrder == SelectSeq(InputOrder, LAMBDA f : disk[f].exists)

\* the CONFIG_IDF_TARGET lines of the files fs, in reading order
RECURSIVE TargetLines(_)
TargetLines(files) ==
    IF files = <<>> THEN <<>>
    ELSE SelectSeq(disk[Head(files)].lines, LAMBDA l : KeyOf(l) = CONFIG_IDF_TARGET)
         \o TargetLines(Tail(files))

\* C22: when the sdkconfig files are processed, the file-declared target is
\* the value of the last CONFIG_IDF_TARGET line of the existing candidate
\* files read in input order, and absent when there is no such line; the
\* output list has one path per existing candidate, in input order, and none
\* for a missing one.
C22_LastTargetWins ==
    pc = "processed" =>
        LET targets == TargetLines(ExistingInOrder)
        IN  /\ sdkconfig_files_defined_target =
                  (IF targets = <<>> THEN <<>> ELSE ValueOf(targets[Len(targets)]))
            /\ Len(sdkconfig_files) = Len(ExistingInOrder)
            /\ \A i \in 1..Len(sdkconfig_files) :
                  sdkconfig_files[i] \in {ExistingInOrder[i], ExpandedFp(ExistingInOrder[i])}

\* ... the defaults and the overlay declare different targets
C22_Witness ==
    /\ pc = "processed"
    /\ app.sdkconfig_path # NoPath
    /\ disk[app.sdkconfig_defaults[1]].lines = <<<<"CONFIG_IDF_TARGET", "=", "esp32s3">>>>
    /\ disk[app.sdkconfig_path].lines = <<<<"CONFIG_IDF_TARGET", "=", "\"", "esp32", "\"">>>>
    /\ sdkconfig_files_defined_target = <<"esp32">>
    /\ Len(sdkconfig_files) = 2

\* ... the missing defaults file gives no path and the overlay the target
C22_WitnessMissing ==
    /\ pc = "processed"
    /\ app.sdkconfig_path # NoPath
    /\ ~disk[app.sdkconfig_defaults[1]].exists
    /\ sdkconfig_files = <<app.sdkconfig_path>>
    /\ sdkconfig_files_defined_target = <<"esp32s3">>

\* C23: whenever build() raised the error of the toolchain step or the error
\* of the strict-warnings policy and no log path was configured, the scratch
\* log of the build still exists.
C23_ScratchLogSurvivesError ==
    (pc = "raised" /\ ~app.build_log_path /\ raised \in {build_with_error, WarningsError})
        => "tmp_log" \in fs

\* C25: when the toolchain step failed and the log also holds an unignored
\* warning under check_warnings, the build() that ended raised the error of
\* the toolchain step and not the error of the warnings policy; it raised this
\* one error and returned nothing.
C25_ToolchainErrorWins ==
    (pc \in Terminal /\ build_with_error # NoError
     /\ app.check_warnings /\ has_unignored_warning) =>
        /\ pc = "raised"
        /\ raised = build_with_error
        /\ raised # WarningsError
        /\ returned = "None"

\* ... the full build of a CMake App failed after it wrote a warning
C25_Witness ==
    /\ pc = "raised"
    /\ app.variant = "cmake"
    /\ app.check_warnings
    /\ SawUnignored
    /\ has_unignored_warning
    /\ raised = "Command idf.py build failed"

\* C26: a build() with dry_run set leaves the build decision as it was,
\* neither evaluated nor changed, and returns True whatever the decision is,
\* No included.
C26_DryRunIgnoresDecision ==
    [][(app.dry_run /\ pc \in {"constructed", "checked"} /\ pc' \notin {"constructed", "checked"})
         => /\ should_build' = should_build
            /\ checked_should_build' = checked_should_build
            /\ pc' = "returned"
            /\ returned' = "True"]_vars

\* ... the dry run of an App that was decided not to build
C26_Witness ==
    /\ app.dry_run
    /\ pc = "returned"
    /\ should_build = NO
    /\ checked_should_build
    /\ returned = "True"

\* the file of this path is there: a scratch copy, or an original
SdkconfigFileExists(p) ==
    IF p.dir = ExpandedDir THEN p.base \in DOMAIN scratch ELSE disk[p].exists

\* C24: for a CMake App whose work directory is not its app directory, every path
\* of sdkconfig_files, computed at construction, names a file that exists when
\* build() has prepared the work directory and the toolchain is to be invoked
\* with these paths in -DSDKCONFIG_DEFAULTS.
C24_SdkconfigFilesExistAtBuild ==
    (pc = "prepared" /\ app.variant = "cmake" /\ ~app.work_dir_is_app_dir) =>
        \A i \in 1..Len(sdkconfig_files) : SdkconfigFileExists(sdkconfig_files[i])

====
